---- MODULE Spec2Model ----
(***************************************************************************)
(* A model of the coroutine runtime's I/O adapter protocol:                *)
(*   - the readiness-model connect event source (TcpStreamConnect),        *)
(*   - the TcpStream / TcpListener wrappers' first non-blocking attempt,   *)
(*   - the poison flag of the synchronisation primitives,                  *)
(*   - the select example and the echo example,                            *)
(*   - the handles of a socket (TcpStream, its clones, TcpListener),       *)
(*   - TcpStreamConnect::new and its fold over the resolved addresses,     *)
(*   - the completion-model receive event source (UdpRecvFrom),            *)
(*   - the raw descriptors of TcpStream and TcpListener (into_raw_fd).     *)
(* Each part has its own specification; the parts share no state.          *)
(***************************************************************************)
EXTENDS Integers, Sequences, FiniteSets, TLC

\* ---------------------------------------------------------------- bounds

\* Write-readiness events the reactor delivers on the connect's IoData.
MaxEvents == 2
\* Invocations of subscribe that may be in progress at once (a subscribe on the
\* scheduler stack of one worker may still run while the coroutine, taken from
\* the park slot, runs on another worker and yields again).
MaxSub == 2
\* Times the event source of a read, write or accept finds WouldBlock again
\* after it was resumed.
MaxRetries == 2
\* Threads (or coroutines) that use one poison flag.
NThreads == 2
\* The longest sleep of the select's producer that is tried, in units of 100 ms
\* (the example sleeps SendDelay).
MaxDelay == 1
\* The longest byte sequence the echo client writes.
MaxLen == 3
\* Handles of one stream socket: the original and its clones.
MaxHandles == 2
\* Calls made through the handles of one socket.
MaxCalls == 4
\* Distinct timeout durations a handle may be given.
MaxDur == 2
\* Socket addresses one name resolves to.
MaxAddrs == 3
\* Descriptor numbers of the process's descriptor table.
MaxFds == 2
\* Sockets the program creates.
MaxSocks == 3

VARIABLES
    \* ---- TcpStreamConnect, its IoData, the reactor and the cancel token
    pc,           \* position of the coroutine in TcpStream::connect / done()
    sub,          \* position of each subscribe invocation
    slot,         \* io_data.co holds the coroutine (the park slot)
    readyq,       \* entries of the coroutine in the ready queues
    write_ready,  \* io_data.is_write_ready()
    write_wait,   \* io_data.is_write_wait()
    io_flag,      \* bits of io_data.io_flag that are set
    is_connected, \* TcpStreamConnect.is_connected
    timeout,      \* TcpStreamConnect.timeout is Some(dur)
    timer,        \* the I/O timer: "none", "armed", "fired"
    cancelled,    \* the cancel token's cancelled bit
    cancel_io,    \* the token's back-reference to the IoData is set
    canc_pc,      \* position of the task that sets the token
    kstate,       \* the kernel's state of the socket's connection
    result,       \* what done() returned
    reactor_pc,   \* position of the reactor in delivering one event
    events,       \* write-readiness events delivered so far
    cancel_runs,  \* times cancel.cancel() ran on the token's back-reference
    continued,    \* done()'s loop was continued by the fetch_and and has not
                  \* attempted connect since
    \* ---- one call of TcpStream::read / write or TcpListener::accept
    t_op,         \* the operation called
    t_pc,         \* position of the caller in it
    t_co,         \* the caller is a coroutine (is_coroutine())
    t_nonblock,   \* the socket is in non-blocking mode
    t_first,      \* the answer of the first attempt's system call
    t_res,        \* what the operation returned
    t_tries,      \* retries of the event source's done()
    \* ---- sync::poison::Flag and the threads that use it
    failed,       \* Flag.failed
    panicking,    \* thread::panicking() of each thread
    guard,        \* the Guard each thread holds, and how borrow() returned it
    got,          \* what each thread's last Flag::get() returned
    mapped,       \* what each thread's last map_result returned
    \* ---- the select example: main, the spawned producer, the clock
    now,          \* the monotonic clock, in units of 100 ms
    delay,        \* the producer's sleep between its two sends, in the same units
    ch1,          \* the values queued in the channel (tx1, rx1)
    ch2,          \* the values queued in the channel (tx2, rx2)
    prod_pc,      \* the producer's next instruction
    prod_due,     \* the deadline of the producer's sleep; -1 when it is not asleep
    main_pc,      \* position of main
    sel_i,        \* the branch select! adds or cancels next
    br,           \* the state of each branch of the select
    cq,           \* the coordinating queue: ids of the completed branches
    sel_id,       \* the id select! returned
    sleep_due,    \* the deadline of the sleep branch
    bodies,       \* ids of the branches whose body ran
    rx1_res,      \* what the final rx1.recv() returned
    \* ---- the echo example: one handle_client and its connection
    e_B,          \* the bytes the client writes
    e_in,         \* the bytes of e_B the handler has not read yet
    e_buf,        \* read[0..n]: the chunk the last read() returned
    e_out,        \* the bytes written back to the client
    e_pc,         \* position of handle_client
    \* ---- the handles (TcpStream and its clones, or a TcpListener) of one socket
    h_kind,       \* "stream" or "listener"
    h_live,       \* the handles that exist
    h_nb,         \* the socket is in non-blocking mode (shared by the clones)
    h_rt,         \* read_timeout of each handle
    h_wt,         \* write_timeout of each handle
    h_pc,         \* position of the caller in the current call
    h_op,         \* the current, or the last, operation
    h_cur,        \* the handle the operation is called on
    h_co,         \* the caller is a coroutine (is_coroutine())
    h_arg,        \* set_*_timeout's argument, try_clone's new handle, or the
                  \* timeout passed to the event source's constructor
    h_calls,      \* calls made so far
    \* ---- TcpStreamConnect::new: the fold over the resolved addresses
    n_addrs,      \* addr.to_socket_addrs(): the family of each resolved address
    n_i,          \* the address the fold visits next
    n_prev,       \* the fold's accumulator: an error, or a socket and its address
    n_pc,         \* position in new(): "fold", "setup", "made", "err"
    \* ---- UdpRecvFrom (completion model), its EventData, the port, the token
    u_pc,         \* position of the coroutine: "yield", "suspended", "done", "returned"
    u_sub,        \* position of subscribe
    u_slot,       \* io_data.co holds the coroutine
    u_readyq,     \* entries of the coroutine in the ready queues
    u_timeout,    \* UdpRecvFrom.timeout is Some(dur)
    u_timer,      \* the I/O timer: "none", "armed", "fired"
    u_flag,       \* the timed-out bit of io_data.io_flag
    u_io,         \* the overlapped recv: "none", "pending", "queued", "delivered"
    u_status,     \* the status of its completion: "none", "ok", "aborted"
    u_para,       \* the error the coroutine carries: "none", "err"
    u_cancelled,  \* the cancel token's cancelled bit
    u_cancel_io,  \* the token's back-reference to the EventData is set
    u_canc_pc,    \* position of the task that sets the token
    u_result,     \* what done() returned
    u_wakes,      \* times the coroutine was scheduled
    \* ---- the raw descriptors of TcpStream / TcpListener
    r_table,      \* the descriptor table: the socket each number refers to, 0 if closed
    r_reg,        \* descriptor numbers registered with the selector
    r_w,          \* the wrappers (TcpStream / TcpListener) that are alive
    r_raw,        \* raw descriptors into_raw_fd handed to the caller
    r_out,        \* how the last from_raw_fd ended: "none", "ok", "panic"
    r_dereg,      \* times each socket was taken off the selector since it was registered
    r_nsock       \* sockets created so far

connVars == <<pc, sub, slot, readyq, write_ready, write_wait, io_flag, is_connected,
              timeout, timer, cancelled, cancel_io, canc_pc, kstate, result,
              reactor_pc, events, cancel_runs, continued>>

tcpVars == <<t_op, t_pc, t_co, t_nonblock, t_first, t_res, t_tries>>

poisonVars == <<failed, panicking, guard, got, mapped>>

selVars == <<now, delay, ch1, ch2, prod_pc, prod_due, main_pc, sel_i, br, cq, sel_id,
             sleep_due, bodies, rx1_res>>

echoVars == <<e_B, e_in, e_buf, e_out, e_pc>>

handleVars == <<h_kind, h_live, h_nb, h_rt, h_wt, h_pc, h_op, h_cur, h_co, h_arg, h_calls>>

newVars == <<n_addrs, n_i, n_prev, n_pc>>

udpVars == <<u_pc, u_sub, u_slot, u_readyq, u_timeout, u_timer, u_flag, u_io, u_status, u_para,
             u_cancelled, u_cancel_io, u_canc_pc, u_result, u_wakes>>

rawVars == <<r_table, r_reg, r_w, r_raw, r_out, r_dereg, r_nsock>>

vars == <<connVars, tcpVars, poisonVars, selVars, echoVars, handleVars, newVars, udpVars,
          rawVars>>

\* What each part leaves alone.
notConn == <<tcpVars, poisonVars, selVars, echoVars, handleVars, newVars, udpVars, rawVars>>
notTcp == <<connVars, poisonVars, selVars, echoVars, handleVars, newVars, udpVars, rawVars>>
notPoison == <<connVars, tcpVars, selVars, echoVars, handleVars, newVars, udpVars, rawVars>>
notSel == <<connVars, tcpVars, poisonVars, echoVars, handleVars, newVars, udpVars, rawVars>>
notEcho == <<connVars, tcpVars, poisonVars, selVars, handleVars, newVars, udpVars, rawVars>>
notHandle == <<connVars, tcpVars, poisonVars, selVars, echoVars, newVars, udpVars, rawVars>>
notNew == <<connVars, tcpVars, poisonVars, selVars, echoVars, handleVars, udpVars, rawVars>>
notUdp == <<connVars, tcpVars, poisonVars, selVars, echoVars, handleVars, newVars, rawVars>>
notRaw == <<connVars, tcpVars, poisonVars, selVars, echoVars, handleVars, newVars, udpVars>>

\* ------------------------------------------------ TcpStreamConnect: helpers

Subs == 1..MaxSub

\* The io_flag bit done() tests and clears with fetch_and(!2).
EventBit == "event"
TimeoutBit == "timeout"
CancelBit == "cancel"

\* What connect(2) may answer on a non-blocking socket in each kernel state.
ConnectResults(k) ==
    CASE k = "fresh"      -> {"Ok", "EINPROGRESS", "ECONNREFUSED"}
      [] k = "inprogress" -> {"EALREADY"}
      [] k = "connected"  -> {"Ok", "EISCONN"}
      [] OTHER            -> {"ECONNREFUSED"}

\* The kernel's state after connect(2) answered r in state k.
KernelAfter(k, r) ==
    IF k # "fresh" THEN k
    ELSE CASE r = "Ok"          -> "connected"
           [] r = "EINPROGRESS" -> "inprogress"
           [] OTHER             -> "failed"

\* co_io_result(): the safepoint at the top of done()'s loop.
co_io_result(c, f) ==
    IF c THEN "Cancelled"
    ELSE IF TimeoutBit \in f THEN "TimedOut"
    ELSE "Ok"

\* The match of done() on connect's answer: return Ok, re-arm, or return the error.
DoneMatch_NoEalready(r) ==
    CASE r = "Ok"          -> "ret_ok"
      [] r = "EINPROGRESS" -> "wait"
      [] r = "EISCONN"     -> "ret_ok"
      [] OTHER             -> "ret_err"

DoneMatch(r) ==
    CASE r = "Ok"          -> "ret_ok"
      [] r = "EINPROGRESS" -> "wait"
      [] r = "EALREADY"    -> "wait"
      [] r = "EISCONN"     -> "ret_ok"
      [] OTHER             -> "ret_err"

\* io_data.schedule(): take the coroutine out of the park slot, if it is there,
\* and push it to a ready queue.
IoSchedule ==
    IF slot
    THEN slot' = FALSE /\ readyq' = readyq + 1
    ELSE UNCHANGED <<slot, readyq>>

\* cancel.cancel(): the unstick of a readiness system.
CancelUnstickIo_Push ==
    IF cancel_io
    THEN /\ io_flag' = io_flag \cup {CancelBit}
         /\ slot' = FALSE
         /\ readyq' = readyq + 1
         /\ cancel_runs' = cancel_runs + 1
    ELSE UNCHANGED <<io_flag, slot, readyq, cancel_runs>>

CancelUnstickIo ==
    IF cancel_io
    THEN io_flag' = io_flag \cup {CancelBit} /\ IoSchedule /\ cancel_runs' = cancel_runs + 1
    ELSE UNCHANGED <<io_flag, slot, readyq, cancel_runs>>

ConnInit ==
    /\ pc = "check"
    /\ sub = [i \in Subs |-> "idle"]
    /\ slot = FALSE
    /\ readyq = 0
    /\ write_ready = FALSE
    /\ write_wait = FALSE
    /\ io_flag = {}
    /\ is_connected = FALSE
    /\ timeout \in BOOLEAN
    /\ timer = "none"
    /\ cancelled = FALSE
    /\ cancel_io = FALSE
    /\ canc_pc = "idle"
    /\ kstate = "fresh"
    /\ result = "none"
    /\ reactor_pc = "idle"
    /\ events = 0
    /\ cancel_runs = 0
    /\ continued = FALSE

\* ---------------------------------------- TcpStreamConnect: the coroutine

\* check_connected(): the first connect request.
CheckConnected ==
    /\ pc = "check"
    /\ \E r \in ConnectResults(kstate) :
        /\ kstate' = KernelAfter(kstate, r)
        /\ CASE r = "Ok" ->
                  is_connected' = TRUE /\ pc' = "done_entry" /\ UNCHANGED result
             [] r = "EINPROGRESS" ->
                  pc' = "done_entry" /\ UNCHANGED <<is_connected, result>>
             [] OTHER ->
                  pc' = "returned" /\ result' = r /\ UNCHANGED is_connected
    /\ UNCHANGED <<sub, slot, readyq, write_ready, write_wait, io_flag, timeout, timer,
                   cancelled, cancel_io, canc_pc, reactor_pc, events>>
    /\ UNCHANGED <<cancel_runs, continued>>
    /\ UNCHANGED notConn

\* done(): "first check if it's already connected".
DoneEntry ==
    /\ pc = "done_entry"
    /\ IF is_connected
       THEN pc' = "returned" /\ result' = "Ok"
       ELSE pc' = "loop_top" /\ UNCHANGED result
    /\ UNCHANGED <<sub, slot, readyq, write_ready, write_wait, io_flag, is_connected,
                   timeout, timer, cancelled, cancel_io, canc_pc, kstate, reactor_pc,
                   events>>
    /\ UNCHANGED <<cancel_runs, continued>>
    /\ UNCHANGED notConn

\* done(): co_io_result()? at the top of the loop.
DoneCoIoResult ==
    /\ pc = "loop_top"
    /\ LET r == co_io_result(cancelled, io_flag) IN
        IF r = "Ok"
        THEN pc' = "test" /\ UNCHANGED result
        ELSE pc' = "returned" /\ result' = r
    /\ UNCHANGED <<sub, slot, readyq, write_ready, write_wait, io_flag, is_connected,
                   timeout, timer, cancelled, cancel_io, canc_pc, kstate, reactor_pc,
                   events>>
    /\ UNCHANGED <<cancel_runs, continued>>
    /\ UNCHANGED notConn

\* done(): if !is_write_wait() || is_write_ready()
DoneTest ==
    /\ pc = "test"
    /\ pc' = IF ~write_wait \/ write_ready THEN "reset" ELSE "fetch"
    /\ UNCHANGED <<sub, slot, readyq, write_ready, write_wait, io_flag, is_connected,
                   timeout, timer, cancelled, cancel_io, canc_pc, kstate, result,
                   reactor_pc, events>>
    /\ UNCHANGED <<cancel_runs, continued>>
    /\ UNCHANGED notConn

\* done(): reset_write()
DoneResetWrite ==
    /\ pc = "reset"
    /\ write_ready' = FALSE
    /\ pc' = "connect"
    /\ UNCHANGED <<sub, slot, readyq, write_wait, io_flag, is_connected, timeout, timer,
                   cancelled, cancel_io, canc_pc, kstate, result, reactor_pc, events>>
    /\ UNCHANGED <<cancel_runs, continued>>
    /\ UNCHANGED notConn

\* done(): match self.stream.connect(..)
DoneConnect ==
    /\ pc = "connect"
    /\ continued' = FALSE
    /\ \E r \in ConnectResults(kstate) :
        /\ kstate' = KernelAfter(kstate, r)
        /\ CASE DoneMatch(r) = "ret_ok" ->
                  pc' = "returned" /\ result' = "Ok" /\ UNCHANGED write_wait
             [] DoneMatch(r) = "wait" ->
                  pc' = "fetch" /\ write_wait' = TRUE /\ UNCHANGED result
             [] OTHER ->
                  pc' = "returned" /\ result' = r /\ UNCHANGED write_wait
    /\ UNCHANGED <<sub, slot, readyq, write_ready, io_flag, is_connected, timeout, timer,
                   cancelled, cancel_io, canc_pc, reactor_pc, events>>
    /\ UNCHANGED cancel_runs
    /\ UNCHANGED notConn

\* done(): if (io_flag.fetch_and(!2) & 2) != 0 { continue }
DoneFetchAnd_AlwaysYield ==
    /\ pc = "fetch"
    /\ io_flag' = io_flag \ {EventBit}
    /\ pc' = "yield"
    /\ continued' = FALSE
    /\ UNCHANGED <<sub, slot, readyq, write_ready, write_wait, is_connected, timeout,
                   timer, cancelled, cancel_io, canc_pc, kstate, result, reactor_pc,
                   events>>
    /\ UNCHANGED cancel_runs
    /\ UNCHANGED notConn

DoneFetchAnd ==
    /\ pc = "fetch"
    /\ io_flag' = io_flag \ {EventBit}
    /\ pc' = IF EventBit \in io_flag THEN "loop_top" ELSE "yield"
    /\ continued' = (EventBit \in io_flag)
    /\ UNCHANGED <<sub, slot, readyq, write_ready, write_wait, is_connected, timeout,
                   timer, cancelled, cancel_io, canc_pc, kstate, result, reactor_pc,
                   events>>
    /\ UNCHANGED cancel_runs
    /\ UNCHANGED notConn

\* done(): yield_with(self): the coroutine suspends and subscribe(co) starts on
\* the scheduler stack.
FreeSub == CHOOSE i \in Subs : sub[i] = "idle" /\ \A j \in Subs : sub[j] = "idle" => i <= j

DoneYieldWith ==
    /\ pc = "yield"
    /\ \E i \in Subs : sub[i] = "idle"
    /\ sub' = [sub EXCEPT ![FreeSub] = "timer"]
    /\ pc' = "suspended"
    /\ UNCHANGED <<slot, readyq, write_ready, write_wait, io_flag, is_connected, timeout,
                   timer, cancelled, cancel_io, canc_pc, kstate, result, reactor_pc,
                   events>>
    /\ UNCHANGED <<cancel_runs, continued>>
    /\ UNCHANGED notConn

\* A worker pops the coroutine from a ready queue: yield_with returns in done().
Resume ==
    /\ pc = "suspended"
    /\ readyq > 0
    /\ readyq' = readyq - 1
    /\ pc' = "loop_top"
    /\ UNCHANGED <<sub, slot, write_ready, write_wait, io_flag, is_connected, timeout,
                   timer, cancelled, cancel_io, canc_pc, kstate, result, reactor_pc,
                   events>>
    /\ UNCHANGED <<cancel_runs, continued>>
    /\ UNCHANGED notConn

\* ------------------------------------------ TcpStreamConnect::subscribe

\* if let Some(dur) = self.timeout { add_io_timer(&self.io_data, dur) }
SubAddTimer(i) ==
    /\ sub[i] = "timer"
    /\ timer' = IF timeout THEN "armed" ELSE timer
    /\ sub' = [sub EXCEPT ![i] = "swap"]
    /\ UNCHANGED <<pc, slot, readyq, write_ready, write_wait, io_flag, is_connected,
                   timeout, cancelled, cancel_io, canc_pc, kstate, result, reactor_pc,
                   events>>
    /\ UNCHANGED <<cancel_runs, continued>>
    /\ UNCHANGED notConn

\* self.io_data.co.swap(co, Ordering::Release)
SubSwap(i) ==
    /\ sub[i] = "swap"
    /\ slot' = TRUE
    /\ sub' = [sub EXCEPT ![i] = "check_ready"]
    /\ UNCHANGED <<pc, readyq, write_ready, write_wait, io_flag, is_connected, timeout,
                   timer, cancelled, cancel_io, canc_pc, kstate, result, reactor_pc,
                   events>>
    /\ UNCHANGED <<cancel_runs, continued>>
    /\ UNCHANGED notConn

\* if self.io_data.is_write_ready() { return self.io_data.schedule() }
SubCheckReady_NoRecheck(i) ==
    /\ sub[i] = "check_ready"
    /\ sub' = [sub EXCEPT ![i] = "set_io"]
    /\ UNCHANGED <<slot, readyq>>

SubCheckReady_Push(i) ==
    /\ sub[i] = "check_ready"
    /\ IF write_ready
       THEN /\ slot' = FALSE
            /\ readyq' = readyq + 1
            /\ sub' = [sub EXCEPT ![i] = "idle"]
       ELSE /\ sub' = [sub EXCEPT ![i] = "set_io"]
            /\ UNCHANGED <<slot, readyq>>

SubCheckReady_KeepSlot(i) ==
    /\ sub[i] = "check_ready"
    /\ IF write_ready
       THEN /\ readyq' = readyq + 1
            /\ UNCHANGED slot
            /\ sub' = [sub EXCEPT ![i] = "idle"]
       ELSE /\ sub' = [sub EXCEPT ![i] = "set_io"]
            /\ UNCHANGED <<slot, readyq>>

SubCheckReady(i) ==
    /\ sub[i] = "check_ready"
    /\ IF write_ready
       THEN IoSchedule /\ sub' = [sub EXCEPT ![i] = "idle"]
       ELSE sub' = [sub EXCEPT ![i] = "set_io"] /\ UNCHANGED <<slot, readyq>>

SubCheckReadyStep(i) ==
    /\ SubCheckReady(i)
    /\ UNCHANGED <<pc, write_ready, write_wait, io_flag, is_connected, timeout, timer,
                   cancelled, cancel_io, canc_pc, kstate, result, reactor_pc, events>>
    /\ UNCHANGED <<cancel_runs, continued>>
    /\ UNCHANGED notConn

\* cancel.set_io(self.io_data.clone())
SubSetIo(i) ==
    /\ sub[i] = "set_io"
    /\ cancel_io' = TRUE
    /\ sub' = [sub EXCEPT ![i] = "recheck"]
    /\ UNCHANGED <<pc, slot, readyq, write_ready, write_wait, io_flag, is_connected,
                   timeout, timer, cancelled, canc_pc, kstate, result, reactor_pc, events>>
    /\ UNCHANGED <<cancel_runs, continued>>
    /\ UNCHANGED notConn

\* if cancel.is_canceled() { unsafe { cancel.cancel() } }
SubRecheckCancel_Skip(i) ==
    /\ sub[i] = "recheck"
    /\ UNCHANGED <<io_flag, slot, readyq, cancel_runs>>
    /\ sub' = [sub EXCEPT ![i] = "idle"]

SubRecheckCancel(i) ==
    /\ sub[i] = "recheck"
    /\ IF cancelled THEN CancelUnstickIo ELSE UNCHANGED <<io_flag, slot, readyq, cancel_runs>>
    /\ sub' = [sub EXCEPT ![i] = "idle"]

SubRecheckCancelStep(i) ==
    /\ SubRecheckCancel(i)
    /\ UNCHANGED <<pc, write_ready, write_wait, is_connected, timeout, timer, cancelled,
                   cancel_io, canc_pc, kstate, result, reactor_pc, events>>
    /\ UNCHANGED continued
    /\ UNCHANGED notConn

\* --------------------------------- the reactor, the timer, the canceller

\* The reactor's poll reports the fd writable: set the readiness bits.
ReactorSetReady ==
    /\ reactor_pc = "idle"
    /\ events < MaxEvents
    /\ events' = events + 1
    /\ write_ready' = TRUE
    /\ io_flag' = io_flag \cup {EventBit}
    /\ reactor_pc' = "take"
    /\ UNCHANGED <<pc, sub, slot, readyq, write_wait, is_connected, timeout, timer,
                   cancelled, cancel_io, canc_pc, kstate, result>>
    /\ UNCHANGED <<cancel_runs, continued>>
    /\ UNCHANGED notConn

\* ... and, if a coroutine is parked in the slot, take it and schedule it.
ReactorTake ==
    /\ reactor_pc = "take"
    /\ IoSchedule
    /\ reactor_pc' = "idle"
    /\ UNCHANGED <<pc, sub, write_ready, write_wait, io_flag, is_connected, timeout,
                   timer, cancelled, cancel_io, canc_pc, kstate, result, events>>
    /\ UNCHANGED <<cancel_runs, continued>>
    /\ UNCHANGED notConn

\* The kernel finishes the connection attempt.
KernelComplete ==
    /\ kstate = "inprogress"
    /\ kstate' \in {"connected", "failed"}
    /\ UNCHANGED <<pc, sub, slot, readyq, write_ready, write_wait, io_flag, is_connected,
                   timeout, timer, cancelled, cancel_io, canc_pc, result, reactor_pc,
                   events>>
    /\ UNCHANGED <<cancel_runs, continued>>
    /\ UNCHANGED notConn

\* The timer installed by add_io_timer fires: set the timed-out bit and
\* schedule the coroutine parked in the slot.
TimerFire ==
    /\ timer = "armed"
    /\ timer' = "fired"
    /\ io_flag' = io_flag \cup {TimeoutBit}
    /\ IoSchedule
    /\ UNCHANGED <<pc, sub, write_ready, write_wait, is_connected, timeout, cancelled,
                   cancel_io, canc_pc, kstate, result, reactor_pc, events>>
    /\ UNCHANGED <<cancel_runs, continued>>
    /\ UNCHANGED notConn

\* Another task sets the coroutine's cancel token ...
CancelSet ==
    /\ canc_pc = "idle"
    /\ cancelled' = TRUE
    /\ canc_pc' = "unstick"
    /\ UNCHANGED <<pc, sub, slot, readyq, write_ready, write_wait, io_flag, is_connected,
                   timeout, timer, cancel_io, kstate, result, reactor_pc, events>>
    /\ UNCHANGED <<cancel_runs, continued>>
    /\ UNCHANGED notConn

\* ... and then unsticks the I/O the token's back-reference names.
CancelUnstick ==
    /\ canc_pc = "unstick"
    /\ CancelUnstickIo
    /\ canc_pc' = "done"
    /\ UNCHANGED <<pc, sub, write_ready, write_wait, is_connected, timeout, timer,
                   cancelled, cancel_io, kstate, result, reactor_pc, events>>
    /\ UNCHANGED continued
    /\ UNCHANGED notConn

ConnNext ==
    \/ CheckConnected
    \/ DoneEntry
    \/ DoneCoIoResult
    \/ DoneTest
    \/ DoneResetWrite
    \/ DoneConnect
    \/ DoneFetchAnd
    \/ DoneYieldWith
    \/ Resume
    \/ \E i \in Subs : SubAddTimer(i)
    \/ \E i \in Subs : SubSwap(i)
    \/ \E i \in Subs : SubCheckReadyStep(i)
    \/ \E i \in Subs : SubSetIo(i)
    \/ \E i \in Subs : SubRecheckCancelStep(i)
    \/ ReactorSetReady
    \/ ReactorTake
    \/ KernelComplete
    \/ TimerFire
    \/ CancelSet
    \/ CancelUnstick

\* ------------------------------- TcpStream::read/write, TcpListener::accept

TcpOps == {"read", "write", "accept"}

\* What the system call may answer, by the socket's mode.
SysAnswers(nb) == IF nb THEN {"Ok", "WouldBlock", "Err"} ELSE {"Ok", "Err"}

\* The match on the first, non-blocking attempt:
\*   Err(ref e) if e.kind() == WouldBlock => {}   ret @ _ => return ret
FirstAttempt_ReturnAll(r) == "return"

FirstAttempt(r) == IF r = "WouldBlock" THEN "yield" ELSE "return"

TcpInit ==
    /\ t_op \in TcpOps
    /\ t_co \in BOOLEAN
    /\ t_pc = "check"
    /\ t_nonblock = TRUE
    /\ t_first = "none"
    /\ t_res = "none"
    /\ t_tries = 0

\* self.ctx.check(|| self.sys.set_nonblocking(false))
TcpCtxCheck ==
    /\ t_pc = "check"
    /\ IF t_co
       THEN t_pc' = "try" /\ UNCHANGED t_nonblock
       ELSE t_pc' = "blocking" /\ t_nonblock' = FALSE
    /\ UNCHANGED <<t_op, t_co, t_first, t_res, t_tries>>
    /\ UNCHANGED notTcp

\* "this can't be nonblocking!!": return self.sys.read(buf) and the like
TcpBlockingCall ==
    /\ t_pc = "blocking"
    /\ \E r \in SysAnswers(t_nonblock) : t_res' = r
    /\ t_pc' = "returned"
    /\ UNCHANGED <<t_op, t_co, t_nonblock, t_first, t_tries>>
    /\ UNCHANGED notTcp

\* the earlier-return try of the non-blocking call
TcpFirstAttempt ==
    /\ t_pc = "try"
    /\ \E r \in SysAnswers(t_nonblock) :
        /\ t_first' = r
        /\ IF FirstAttempt(r) = "yield"
           THEN t_pc' = "yield" /\ UNCHANGED t_res
           ELSE t_pc' = "returned" /\ t_res' = r
    /\ UNCHANGED <<t_op, t_co, t_nonblock, t_tries>>
    /\ UNCHANGED notTcp

\* SocketRead::new / SocketWrite::new / TcpListenerAccept::new, yield_with
TcpYieldWith ==
    /\ t_pc = "yield"
    /\ t_pc' = "parked"
    /\ UNCHANGED <<t_op, t_co, t_nonblock, t_first, t_res, t_tries>>
    /\ UNCHANGED notTcp

\* the reactor resumes the coroutine
TcpResume ==
    /\ t_pc = "parked"
    /\ t_pc' = "done"
    /\ UNCHANGED <<t_op, t_co, t_nonblock, t_first, t_res, t_tries>>
    /\ UNCHANGED notTcp

\* the event source's done(): retry the call, re-arm on WouldBlock
TcpSourceDone ==
    /\ t_pc = "done"
    /\ \E r \in SysAnswers(t_nonblock) :
        IF r = "WouldBlock"
        THEN /\ t_tries < MaxRetries
             /\ t_tries' = t_tries + 1
             /\ t_pc' = "yield"
             /\ UNCHANGED t_res
        ELSE /\ t_pc' = "returned"
             /\ t_res' = r
             /\ UNCHANGED t_tries
    /\ UNCHANGED <<t_op, t_co, t_nonblock, t_first>>
    /\ UNCHANGED notTcp

TcpNext ==
    \/ TcpCtxCheck
    \/ TcpBlockingCall
    \/ TcpFirstAttempt
    \/ TcpYieldWith
    \/ TcpResume
    \/ TcpSourceDone

\* ------------------------------------------------------ sync::poison::Flag

Threads == 1..NThreads

NoGuard == [held |-> FALSE, panicking |-> FALSE, err |-> FALSE]

\* Flag::get(): self.failed.load(Relaxed)
FlagGet(f) == f

\* Flag::borrow(): Guard { panicking: thread::panicking() }, Err if self.get()
FlagBorrow_Inverted(f, p) == [held |-> TRUE, panicking |-> p, err |-> ~FlagGet(f)]

FlagBorrow(f, p) == [held |-> TRUE, panicking |-> p, err |-> FlagGet(f)]

\* Flag::done(): if !guard.panicking && thread::panicking() { failed.store(true) }
FlagDone_Never(f, gp, p) == f

FlagDone_AnyPanic(f, gp, p) == IF p THEN TRUE ELSE f

FlagDone(f, gp, p) == IF ~gp /\ p THEN TRUE ELSE f

\* LockResult<Guard>: Ok(guard) or Err(PoisonError::new(guard)); "wrapped" tells
\* that the value inside went through map_result's f.
NoResult == [kind |-> "none", panicking |-> FALSE, wrapped |-> FALSE]

\* The LockResult borrow() returned for the guard g.
BorrowResult(g) ==
    [kind |-> IF g.err THEN "Err" ELSE "Ok", panicking |-> g.panicking, wrapped |-> FALSE]

\* map_result: Ok(t) => Ok(f(t)), Err(guard) => Err(PoisonError::new(f(guard.into_inner())))
MapResult(r) ==
    CASE r.kind = "Ok" -> [kind |-> "Ok", panicking |-> r.panicking, wrapped |-> TRUE]
      [] OTHER         -> [kind |-> "Err", panicking |-> r.panicking, wrapped |-> TRUE]

PoisonInit ==
    /\ failed = FALSE
    /\ panicking = [t \in Threads |-> FALSE]
    /\ guard = [t \in Threads |-> NoGuard]
    /\ got = [t \in Threads |-> "none"]
    /\ mapped = [t \in Threads |-> NoResult]

\* A thread takes the lock: Flag::borrow()
Borrow(t) ==
    /\ ~guard[t].held
    /\ guard' = [guard EXCEPT ![t] = FlagBorrow(failed, panicking[t])]
    /\ UNCHANGED <<failed, panicking, got, mapped>>
    /\ UNCHANGED notPoison

\* The thread's guard is dropped: Flag::done(&guard)
GuardDone(t) ==
    /\ guard[t].held
    /\ failed' = FlagDone(failed, guard[t].panicking, panicking[t])
    /\ guard' = [guard EXCEPT ![t] = NoGuard]
    /\ UNCHANGED <<panicking, got, mapped>>
    /\ UNCHANGED notPoison

\* Flag::get()
Get(t) ==
    /\ got' = [got EXCEPT ![t] = IF FlagGet(failed) THEN "poisoned" ELSE "clean"]
    /\ UNCHANGED <<failed, panicking, guard, mapped>>
    /\ UNCHANGED notPoison

\* The lock maps the result of its borrow(): map_result(self.poison.borrow(), f)
MapBorrowed(t) ==
    /\ guard[t].held
    /\ mapped' = [mapped EXCEPT ![t] = MapResult(BorrowResult(guard[t]))]
    /\ UNCHANGED <<failed, panicking, guard, got>>
    /\ UNCHANGED notPoison

\* The thread starts to panic (it unwinds, dropping its guards).
Panic(t) ==
    /\ ~panicking[t]
    /\ panicking' = [panicking EXCEPT ![t] = TRUE]
    /\ UNCHANGED <<failed, guard, got, mapped>>
    /\ UNCHANGED notPoison

\* The panic was caught at the trampoline after the unwinding dropped the guard.
Recover(t) ==
    /\ panicking[t]
    /\ ~guard[t].held
    /\ panicking' = [panicking EXCEPT ![t] = FALSE]
    /\ UNCHANGED <<failed, guard, got, mapped>>
    /\ UNCHANGED notPoison

PoisonNext ==
    \/ \E t \in Threads : Borrow(t)
    \/ \E t \in Threads : GuardDone(t)
    \/ \E t \in Threads : Get(t)
    \/ \E t \in Threads : MapBorrowed(t)
    \/ \E t \in Threads : Panic(t)
    \/ \E t \in Threads : Recover(t)

\* ------------------------------------------------------ examples/select.rs

\* Durations of the example in units of 100 ms, and the value it sends.
SendDelay == 1
SleepTicks == 10
SentValue == 42

\* The spawned coroutine: tx2.send("hello"); sleep(100 ms); tx1.send(42)
ProducerProgram_Swapped == <<"send1", "sleep", "send2">>

ProducerProgram_NoSend1 == <<"send2", "sleep">>

ProducerProgram == <<"send2", "sleep", "send1">>

\* The branches of the select!, in order; a branch's id is its zero-based position.
Branches == <<"accept", "sleep", "rx1", "rx2">>

BranchIds == 0..(Len(Branches) - 1)

BranchKind(i) == Branches[i + 1]

SelInit ==
    /\ now = 0
    /\ delay \in 0..MaxDelay
    /\ ch1 = <<>>
    /\ ch2 = <<>>
    /\ prod_pc = 1
    /\ prod_due = -1
    /\ main_pc = "select"
    /\ sel_i = 0
    /\ br = [i \in BranchIds |-> "new"]
    /\ cq = <<>>
    /\ sel_id = -1
    /\ sleep_due = -1
    /\ bodies = {}
    /\ rx1_res = <<>>

ProdEnded == prod_pc > Len(ProducerProgram)

\* The producer runs its next instruction.
ProdStep ==
    /\ ~ProdEnded
    /\ prod_due = -1
    /\ LET ins == ProducerProgram[prod_pc] IN
        /\ ch2' = IF ins = "send2" THEN Append(ch2, "hello") ELSE ch2
        /\ ch1' = IF ins = "send1" THEN Append(ch1, SentValue) ELSE ch1
        /\ prod_due' = IF ins = "sleep" THEN now + delay ELSE prod_due
        /\ prod_pc' = IF ins = "sleep" THEN prod_pc ELSE prod_pc + 1
    /\ UNCHANGED <<sel_i, now, delay, main_pc, br, cq, sel_id, sleep_due, bodies, rx1_res>>
    /\ UNCHANGED notSel

\* The timer of the producer's sleep fires: not before its deadline.
ProdWake ==
    /\ prod_due # -1
    /\ now >= prod_due
    /\ prod_due' = -1
    /\ prod_pc' = prod_pc + 1
    /\ UNCHANGED <<sel_i, now, delay, ch1, ch2, main_pc, br, cq, sel_id, sleep_due, bodies,
                   rx1_res>>
    /\ UNCHANGED notSel

\* select!: add the next branch and subscribe its event source; after the last
\* one, park on the queue.
SelectAdd ==
    /\ main_pc = "select"
    /\ br' = [br EXCEPT ![sel_i] = "waiting"]
    /\ sleep_due' = IF BranchKind(sel_i) = "sleep" THEN now + SleepTicks ELSE sleep_due
    /\ IF sel_i + 1 \in BranchIds
       THEN sel_i' = sel_i + 1 /\ UNCHANGED main_pc
       ELSE sel_i' = 0 /\ main_pc' = "parked"
    /\ UNCHANGED <<now, delay, ch1, ch2, prod_pc, prod_due, cq, sel_id, bodies, rx1_res>>
    /\ UNCHANGED notSel

\* The event of branch i is there: accept never, sleep at its deadline, a recv
\* when its channel holds a value.
BranchReady(i) ==
    CASE BranchKind(i) = "sleep" -> now >= sleep_due
      [] BranchKind(i) = "rx1"   -> ch1 # <<>>
      [] BranchKind(i) = "rx2"   -> ch2 # <<>>
      [] OTHER                   -> FALSE

\* Branch i completes: a recv takes its value; the id is pushed onto the queue.
BranchComplete(i) ==
    /\ br[i] = "waiting"
    /\ BranchReady(i)
    /\ br' = [br EXCEPT ![i] = "done"]
    /\ cq' = Append(cq, i)
    /\ ch1' = IF BranchKind(i) = "rx1" THEN Tail(ch1) ELSE ch1
    /\ ch2' = IF BranchKind(i) = "rx2" THEN Tail(ch2) ELSE ch2
    /\ UNCHANGED <<sel_i, now, delay, prod_pc, prod_due, main_pc, sel_id, sleep_due, bodies,
                   rx1_res>>
    /\ UNCHANGED notSel

\* The queue is non-empty: the caller wakes, the first id wins, its body runs.
SelectWake ==
    /\ main_pc = "parked"
    /\ cq # <<>>
    /\ sel_id' = Head(cq)
    /\ bodies' = bodies \cup {Head(cq)}
    /\ main_pc' = "cancel"
    /\ UNCHANGED <<sel_i, now, delay, ch1, ch2, prod_pc, prod_due, br, cq, sleep_due, rx1_res>>
    /\ UNCHANGED notSel

\* The next branch is cancelled unless it has completed; after the last one
\* select! returns.
SelectCancel ==
    /\ main_pc = "cancel"
    /\ br' = [br EXCEPT ![sel_i] = IF br[sel_i] = "waiting" THEN "cancelled" ELSE @]
    /\ IF sel_i + 1 \in BranchIds
       THEN sel_i' = sel_i + 1 /\ UNCHANGED main_pc
       ELSE sel_i' = 0 /\ main_pc' = "recv"
    /\ UNCHANGED <<now, delay, ch1, ch2, prod_pc, prod_due, cq, sel_id, sleep_due, bodies,
                   rx1_res>>
    /\ UNCHANGED notSel

\* rx1.recv() after the select: the next value, or an error once tx1 is dropped.
MainRecv ==
    /\ main_pc = "recv"
    /\ IF ch1 # <<>>
       THEN rx1_res' = <<"Ok", Head(ch1)>> /\ ch1' = Tail(ch1)
       ELSE ProdEnded /\ rx1_res' = <<"Err", 0>> /\ UNCHANGED ch1
    /\ main_pc' = "end"
    /\ UNCHANGED <<sel_i, now, delay, ch2, prod_pc, prod_due, br, cq, sel_id, sleep_due, bodies>>
    /\ UNCHANGED notSel

\* The steps the workers run without waiting for the clock.
SelRun ==
    \/ ProdStep
    \/ ProdWake
    \/ SelectAdd
    \/ \E i \in BranchIds : BranchComplete(i)
    \/ SelectWake
    \/ SelectCancel
    \/ MainRecv

\* A timer is pending.
TimerPending ==
    \/ prod_due # -1 /\ now < prod_due
    \/ br[1] = "waiting" /\ now < sleep_due

\* 100 ms pass: only when no coroutine is ready to run, as the workers run
\* every ready coroutine long before.
Tick ==
    /\ TimerPending
    /\ ~ENABLED SelRun
    /\ now' = now + 1
    /\ UNCHANGED <<sel_i, delay, ch1, ch2, prod_pc, prod_due, main_pc, br, cq, sel_id, sleep_due,
                   bodies, rx1_res>>
    /\ UNCHANGED notSel

SelNext ==
    \/ ProdStep
    \/ ProdWake
    \/ SelectAdd
    \/ \E i \in BranchIds : BranchComplete(i)
    \/ SelectWake
    \/ SelectCancel
    \/ MainRecv
    \/ Tick

\* -------------------------------------------------------- examples/echo.rs

\* let mut read = vec![0; 1024 * 16]
ReadBuf == 16384

Bytes == {0, 1}

Inputs == UNION {[1..n -> Bytes] : n \in 0..MaxLen}

Min(a, b) == IF a < b THEN a ELSE b

EchoInit ==
    /\ e_B \in Inputs
    /\ e_in = e_B
    /\ e_buf = <<>>
    /\ e_out = <<>>
    /\ e_pc = "read"

\* stream.read(&mut read): Ok(n) with the next n bytes, Ok(0) once the client
\* has closed, or an error.
EchoRead ==
    /\ e_pc = "read"
    /\ \/ /\ e_in # <<>>
          /\ \E n \in 1..Min(Len(e_in), ReadBuf) :
                /\ e_buf' = SubSeq(e_in, 1, n)
                /\ e_in' = SubSeq(e_in, n + 1, Len(e_in))
          /\ e_pc' = "write"
       \/ /\ e_in = <<>>
          /\ e_pc' = "closed"
          /\ UNCHANGED <<e_in, e_buf>>
       \/ /\ e_pc' = "read_err"
          /\ UNCHANGED <<e_in, e_buf>>
    /\ UNCHANGED <<e_B, e_out>>
    /\ UNCHANGED notEcho

\* stream.write(&read[0..n]).unwrap(): the socket takes the first k bytes and
\* reports k, which the handler drops; an error panics.
EchoWrite ==
    /\ e_pc = "write"
    /\ \/ \E k \in 1..Len(e_buf) :
            /\ e_out' = e_out \o SubSeq(e_buf, 1, k)
            /\ e_pc' = "read"
       \/ e_pc' = "panicked" /\ UNCHANGED e_out
    /\ UNCHANGED <<e_B, e_in, e_buf>>
    /\ UNCHANGED notEcho

EchoNext ==
    \/ EchoRead
    \/ EchoWrite

\* ------------------------------------------- net::tcp: the handles of a socket

Handles == 1..MaxHandles

\* Option<Duration>: None, and the durations a handle may be given.
NoTimeout == 0

Durations == {NoTimeout} \cup (1..MaxDur)

\* The operations of each kind of handle that go through ctx.check.
HandleOps(k) == IF k = "stream" THEN {"read", "write"} ELSE {"accept"}

\* me.read_timeout = dur, me.write_timeout = dur
SetTimeout_AllHandles(t, h, d) == [g \in DOMAIN t |-> d]

SetTimeout(t, h, d) == [t EXCEPT ![h] = d]

\* The handle try_clone makes.
NewHandle == CHOOSE g \in Handles \ h_live : \A k \in Handles \ h_live : g <= k

\* The timeout read() and write() pass to the event source's constructor.
PassedTimeout(op, h) ==
    CASE op = "read"  -> h_rt[h]
      [] op = "write" -> h_wt[h]
      [] OTHER        -> NoTimeout

\* A listener comes from TcpListener::new; a stream is still to be connected.
HandleInit ==
    /\ h_kind \in {"stream", "listener"}
    /\ h_live = IF h_kind = "listener" THEN {1} ELSE {}
    /\ h_nb = (h_kind = "listener")
    /\ h_rt = [h \in Handles |-> NoTimeout]
    /\ h_wt = [h \in Handles |-> NoTimeout]
    /\ h_pc = IF h_kind = "listener" THEN "idle" ELSE "new"
    /\ h_op = "none"
    /\ h_cur = 1
    /\ h_co = FALSE
    /\ h_arg = NoTimeout
    /\ h_calls = 0

\* TcpStream::connect: outside a coroutine the std connect and from_stream, on
\* a socket left in blocking mode; under a coroutine TcpStreamConnect::new,
\* which sets the socket non-blocking, and the first connect request.
HConnect ==
    /\ h_pc = "new"
    /\ \E co \in BOOLEAN :
        /\ h_co' = co
        /\ h_nb' = co
        /\ h_pc' = IF co THEN "try" ELSE "blocking"
    /\ h_op' = "connect"
    /\ h_live' = {1}
    /\ h_cur' = 1
    /\ UNCHANGED <<h_kind, h_rt, h_wt, h_arg, h_calls>>
    /\ UNCHANGED notHandle

\* A caller, a coroutine or a thread, calls read, write or accept on a handle.
HCall ==
    /\ h_pc = "idle"
    /\ h_calls < MaxCalls
    /\ \E h \in h_live, op \in HandleOps(h_kind), co \in BOOLEAN :
        /\ h_cur' = h
        /\ h_op' = op
        /\ h_co' = co
    /\ h_pc' = "check"
    /\ h_calls' = h_calls + 1
    /\ UNCHANGED <<h_kind, h_live, h_nb, h_rt, h_wt, h_arg>>
    /\ UNCHANGED notHandle

\* if !try!(self.ctx.check(|| self.sys.set_nonblocking(false)))
HCtxCheck ==
    /\ h_pc = "check"
    /\ IF h_co
       THEN h_pc' = "try" /\ UNCHANGED h_nb
       ELSE h_pc' = "blocking" /\ h_nb' = FALSE
    /\ UNCHANGED <<h_kind, h_live, h_rt, h_wt, h_op, h_cur, h_co, h_arg, h_calls>>
    /\ UNCHANGED notHandle

\* return self.sys.read(buf) and the like; net::TcpStream::connect(addr)
HBlockingCall ==
    /\ h_pc = "blocking"
    /\ h_pc' = "idle"
    /\ UNCHANGED <<h_kind, h_live, h_nb, h_rt, h_wt, h_op, h_cur, h_co, h_arg, h_calls>>
    /\ UNCHANGED notHandle

\* The first attempt of the call under a coroutine: return its answer, or on
\* WouldBlock build the event source with the handle's timeout.
HFirstAttempt ==
    /\ h_pc = "try"
    /\ \E r \in SysAnswers(h_nb) :
        IF FirstAttempt(r) = "yield"
        THEN h_pc' = "yield" /\ h_arg' = PassedTimeout(h_op, h_cur)
        ELSE h_pc' = "idle" /\ UNCHANGED h_arg
    /\ UNCHANGED <<h_kind, h_live, h_nb, h_rt, h_wt, h_op, h_cur, h_co, h_calls>>
    /\ UNCHANGED notHandle

\* yield_with(&reader) and the like
HYieldWith ==
    /\ h_pc = "yield"
    /\ h_pc' = "parked"
    /\ UNCHANGED <<h_kind, h_live, h_nb, h_rt, h_wt, h_op, h_cur, h_co, h_arg, h_calls>>
    /\ UNCHANGED notHandle

\* The coroutine is resumed and the event source's done() returns.
HSourceDone ==
    /\ h_pc = "parked"
    /\ h_pc' = "idle"
    /\ UNCHANGED <<h_kind, h_live, h_nb, h_rt, h_wt, h_op, h_cur, h_co, h_arg, h_calls>>
    /\ UNCHANGED notHandle

\* TcpStream::set_read_timeout
HSetReadTimeout ==
    /\ h_pc = "idle"
    /\ h_kind = "stream"
    /\ h_calls < MaxCalls
    /\ \E h \in h_live, d \in Durations :
        /\ h_rt' = SetTimeout(h_rt, h, d)
        /\ h_cur' = h
        /\ h_arg' = d
    /\ h_op' = "set_read_timeout"
    /\ h_calls' = h_calls + 1
    /\ UNCHANGED <<h_kind, h_live, h_nb, h_wt, h_pc, h_co>>
    /\ UNCHANGED notHandle

\* TcpStream::set_write_timeout
HSetWriteTimeout ==
    /\ h_pc = "idle"
    /\ h_kind = "stream"
    /\ h_calls < MaxCalls
    /\ \E h \in h_live, d \in Durations :
        /\ h_wt' = SetTimeout(h_wt, h, d)
        /\ h_cur' = h
        /\ h_arg' = d
    /\ h_op' = "set_write_timeout"
    /\ h_calls' = h_calls + 1
    /\ UNCHANGED <<h_kind, h_live, h_nb, h_rt, h_pc, h_co>>
    /\ UNCHANGED notHandle

\* TcpStream::try_clone: duplicate the socket, wrap it with TcpStream::new (which
\* sets the shared socket non-blocking), copy both timeouts into the new handle.
HTryClone ==
    /\ h_pc = "idle"
    /\ h_kind = "stream"
    /\ h_calls < MaxCalls
    /\ h_live # Handles
    /\ \E h \in h_live :
        /\ h_rt' = SetTimeout(h_rt, NewHandle, h_rt[h])
        /\ h_wt' = SetTimeout(h_wt, NewHandle, h_wt[h])
        /\ h_cur' = h
    /\ h_arg' = NewHandle
    /\ h_live' = h_live \cup {NewHandle}
    /\ h_nb' = TRUE
    /\ h_op' = "try_clone"
    /\ h_calls' = h_calls + 1
    /\ UNCHANGED <<h_kind, h_pc, h_co>>
    /\ UNCHANGED notHandle

HandleNext ==
    \/ HConnect
    \/ HCall
    \/ HCtxCheck
    \/ HBlockingCall
    \/ HFirstAttempt
    \/ HYieldWith
    \/ HSourceDone
    \/ HSetReadTimeout
    \/ HSetWriteTimeout
    \/ HTryClone

\* ------------------------------------------------- TcpStreamConnect::new

Families == {"V4", "V6"}

\* An error of the fold: no address resolved, or Socket::new failed.
NoSocket == [ok |-> FALSE, domain |-> "none", addr |-> "none"]

\* match addr { V4(..) => Socket::new(Domain::ipv4(), ..), V6(..) => Socket::new(Domain::ipv4(), ..) }
SocketDomain(a) ==
    CASE a = "V4" -> "ipv4"
      [] a = "V6" -> "ipv4"

NewInit ==
    /\ n_addrs \in UNION {[1..n -> Families] : n \in 0..MaxAddrs}
    /\ n_i = 1
    /\ n_prev = NoSocket
    /\ n_pc = "fold"

\* One step of fold(Err(err), |prev, addr| prev.or_else(|_| ...)): an address
\* is tried only while no socket has been made; Socket::new may fail.
NewFold ==
    /\ n_pc = "fold"
    /\ n_i <= Len(n_addrs)
    /\ IF n_prev.ok
       THEN UNCHANGED n_prev
       ELSE \E made \in BOOLEAN :
              n_prev' = IF made
                        THEN [ok |-> TRUE, domain |-> SocketDomain(n_addrs[n_i]),
                              addr |-> n_addrs[n_i]]
                        ELSE NoSocket
    /\ n_i' = n_i + 1
    /\ UNCHANGED <<n_addrs, n_pc>>
    /\ UNCHANGED notNew

\* The fold is over: and_then runs on a socket, an error is returned as it is.
NewFoldEnd ==
    /\ n_pc = "fold"
    /\ n_i > Len(n_addrs)
    /\ n_pc' = IF n_prev.ok THEN "setup" ELSE "err"
    /\ UNCHANGED <<n_addrs, n_i, n_prev>>
    /\ UNCHANGED notNew

\* stream.set_nonblocking(true)?; add_socket(&stream).map(|io| TcpStreamConnect {..})
NewSetup ==
    /\ n_pc = "setup"
    /\ n_pc' \in {"made", "err"}
    /\ UNCHANGED <<n_addrs, n_i, n_prev>>
    /\ UNCHANGED notNew

NewNext ==
    \/ NewFold
    \/ NewFoldEnd
    \/ NewSetup

\* ---------------------------------------- UdpRecvFrom (completion model)

\* What recv_from_overlapped may answer: the request was submitted (its
\* completion comes through the port), or the submission failed.
SubmitResults == {"submitted", "err"}

\* Take the coroutine out of the park slot, if it is there, and schedule it.
UdpSchedule ==
    IF u_slot
    THEN u_slot' = FALSE /\ u_readyq' = u_readyq + 1 /\ u_wakes' = u_wakes + 1
    ELSE UNCHANGED <<u_slot, u_readyq, u_wakes>>

\* CancelIoEx: a pending request completes with the aborted status, and that
\* completion is queued at the port; any other request is left as it is.
CancelIoEx ==
    IF u_io = "pending"
    THEN u_io' = "queued" /\ u_status' = "aborted"
    ELSE UNCHANGED <<u_io, u_status>>

\* cancel.cancel(): the unstick of a completion system.
UdpCancelIo ==
    IF u_cancel_io THEN CancelIoEx ELSE UNCHANGED <<u_io, u_status>>

\* co_io_result(&self.io_data)
UdpIoResult(c, para, f, st) ==
    IF c THEN "Cancelled"
    ELSE IF para = "err" THEN "Err"
    ELSE IF f \/ st = "aborted" THEN "TimedOut"
    ELSE "Ok"

UdpInit ==
    /\ u_pc = "yield"
    /\ u_sub = "idle"
    /\ u_slot = FALSE
    /\ u_readyq = 0
    /\ u_timeout \in BOOLEAN
    /\ u_timer = "none"
    /\ u_flag = FALSE
    /\ u_io = "none"
    /\ u_status = "none"
    /\ u_para = "none"
    /\ u_cancelled = FALSE
    /\ u_cancel_io = FALSE
    /\ u_canc_pc = "idle"
    /\ u_result = "none"
    /\ u_wakes = 0

\* yield_with(&reader): the coroutine suspends and subscribe(co) starts on the
\* scheduler stack.
UdpYieldWith ==
    /\ u_pc = "yield"
    /\ u_pc' = "suspended"
    /\ u_sub' = "timer"
    /\ UNCHANGED <<u_slot, u_readyq, u_timeout, u_timer, u_flag, u_io, u_status,
                   u_para, u_cancelled, u_cancel_io, u_canc_pc, u_result, u_wakes>>
    /\ UNCHANGED notUdp

\* s.get_selector().add_io_timer(&mut self.io_data, self.timeout)
UdpSubAddTimer ==
    /\ u_sub = "timer"
    /\ u_timer' = IF u_timeout THEN "armed" ELSE u_timer
    /\ u_sub' = "store"
    /\ UNCHANGED <<u_pc, u_slot, u_readyq, u_timeout, u_flag, u_io, u_status, u_para,
                   u_cancelled, u_cancel_io, u_canc_pc, u_result, u_wakes>>
    /\ UNCHANGED notUdp

\* self.io_data.co = Some(co)
UdpSubStore ==
    /\ u_sub = "store"
    /\ u_slot' = TRUE
    /\ u_sub' = "submit"
    /\ UNCHANGED <<u_pc, u_readyq, u_timeout, u_timer, u_flag, u_io, u_status, u_para,
                   u_cancelled, u_cancel_io, u_canc_pc, u_result, u_wakes>>
    /\ UNCHANGED notUdp

\* co_try!(s, self.io_data.co.take().expect("can't get co"), recv_from_overlapped(..)):
\* on an error take the coroutine back, give it the error, schedule it and
\* return; expect panics when the slot is empty.
UdpSubmit(r) ==
    IF r = "err"
    THEN IF u_slot
         THEN /\ u_slot' = FALSE
              /\ u_para' = "err"
              /\ u_readyq' = u_readyq + 1
              /\ u_wakes' = u_wakes + 1
              /\ u_sub' = "idle"
              /\ UNCHANGED u_io
         ELSE /\ u_sub' = "panicked"
              /\ UNCHANGED <<u_slot, u_readyq, u_wakes, u_para, u_io>>
    ELSE /\ u_io' = "pending"
         /\ u_sub' = "set_io"
         /\ UNCHANGED <<u_slot, u_readyq, u_wakes, u_para>>

\* subscribe: the overlapped read is submitted
UdpSubSubmit ==
    /\ u_sub = "submit"
    /\ \E r \in SubmitResults : UdpSubmit(r)
    /\ UNCHANGED <<u_pc, u_timeout, u_timer, u_flag, u_status, u_cancelled,
                   u_cancel_io, u_canc_pc, u_result>>
    /\ UNCHANGED notUdp

\* cancel.set_io(CancelIoData::new(&self.io_data))
UdpSubSetIo ==
    /\ u_sub = "set_io"
    /\ u_cancel_io' = TRUE
    /\ u_sub' = "recheck"
    /\ UNCHANGED <<u_pc, u_slot, u_readyq, u_timeout, u_timer, u_flag, u_io, u_status,
                   u_para, u_cancelled, u_canc_pc, u_result, u_wakes>>
    /\ UNCHANGED notUdp

\* if cancel.is_canceled() { unsafe { cancel.cancel() } }
UdpSubRecheckCancel ==
    /\ u_sub = "recheck"
    /\ IF u_cancelled THEN UdpCancelIo ELSE UNCHANGED <<u_io, u_status>>
    /\ u_sub' = "idle"
    /\ UNCHANGED <<u_pc, u_slot, u_readyq, u_timeout, u_timer, u_flag, u_para,
                   u_cancelled, u_cancel_io, u_canc_pc, u_result, u_wakes>>
    /\ UNCHANGED notUdp

\* A datagram arrives: the pending request completes and its completion is
\* queued at the port.
UdpDatagram ==
    /\ u_io = "pending"
    /\ u_io' = "queued"
    /\ u_status' = "ok"
    /\ UNCHANGED <<u_pc, u_sub, u_slot, u_readyq, u_timeout, u_timer, u_flag, u_para,
                   u_cancelled, u_cancel_io, u_canc_pc, u_result, u_wakes>>
    /\ UNCHANGED notUdp

\* The reactor's poll dequeues the completion, records it in the EventData and
\* schedules the parked coroutine.
UdpCompletion ==
    /\ u_io = "queued"
    /\ u_io' = "delivered"
    /\ UdpSchedule
    /\ UNCHANGED <<u_pc, u_sub, u_timeout, u_timer, u_flag, u_status, u_para,
                   u_cancelled, u_cancel_io, u_canc_pc, u_result>>
    /\ UNCHANGED notUdp

\* The timer installed by add_io_timer fires: set the timed-out bit and
\* schedule the parked coroutine.
UdpTimerFire ==
    /\ u_timer = "armed"
    /\ u_timer' = "fired"
    /\ u_flag' = TRUE
    /\ UdpSchedule
    /\ UNCHANGED <<u_pc, u_sub, u_timeout, u_io, u_status, u_para, u_cancelled,
                   u_cancel_io, u_canc_pc, u_result>>
    /\ UNCHANGED notUdp

\* Another task sets the coroutine's cancel token ...
UdpCancelSet ==
    /\ u_canc_pc = "idle"
    /\ u_cancelled' = TRUE
    /\ u_canc_pc' = "unstick"
    /\ UNCHANGED <<u_pc, u_sub, u_slot, u_readyq, u_timeout, u_timer, u_flag, u_io,
                   u_status, u_para, u_cancel_io, u_result, u_wakes>>
    /\ UNCHANGED notUdp

\* ... and then unsticks the I/O the token's back-reference names.
UdpCancelUnstick ==
    /\ u_canc_pc = "unstick"
    /\ UdpCancelIo
    /\ u_canc_pc' = "done"
    /\ UNCHANGED <<u_pc, u_sub, u_slot, u_readyq, u_timeout, u_timer, u_flag, u_para,
                   u_cancelled, u_cancel_io, u_result, u_wakes>>
    /\ UNCHANGED notUdp

\* A worker pops the coroutine from a ready queue: yield_with returns.
UdpResume ==
    /\ u_pc = "suspended"
    /\ u_readyq > 0
    /\ u_readyq' = u_readyq - 1
    /\ u_pc' = "done"
    /\ UNCHANGED <<u_sub, u_slot, u_timeout, u_timer, u_flag, u_io, u_status, u_para,
                   u_cancelled, u_cancel_io, u_canc_pc, u_result, u_wakes>>
    /\ UNCHANGED notUdp

\* UdpRecvFrom::done
UdpDone ==
    /\ u_pc = "done"
    /\ u_result' = UdpIoResult(u_cancelled, u_para, u_flag, u_status)
    /\ u_pc' = "returned"
    /\ UNCHANGED <<u_sub, u_slot, u_readyq, u_timeout, u_timer, u_flag, u_io, u_status,
                   u_para, u_cancelled, u_cancel_io, u_canc_pc, u_wakes>>
    /\ UNCHANGED notUdp

UdpNext ==
    \/ UdpYieldWith
    \/ UdpSubAddTimer
    \/ UdpSubStore
    \/ UdpSubSubmit
    \/ UdpSubSetIo
    \/ UdpSubRecheckCancel
    \/ UdpDatagram
    \/ UdpCompletion
    \/ UdpTimerFire
    \/ UdpCancelSet
    \/ UdpCancelUnstick
    \/ UdpResume
    \/ UdpDone

\* ----------------------------- net::tcp: into_raw_fd / from_raw_fd (unix)

Fds == 1..MaxFds
Socks == 1..MaxSocks
Wrappers == 1..MaxFds
Kinds == {"stream", "listener"}

\* No wrapper: the TcpStream / TcpListener value does not exist.
NoWrapper == [kind |-> "none", fd |-> 0, sock |-> 0]

\* A raw descriptor in the caller's hands: the number, and the socket and kind of
\* wrapper it was taken from.
RawFds == [fd : Fds, sock : Socks, kind : Kinds]

\* A new socket takes the lowest descriptor number that is free.
LowestFree(table) == CHOOSE fd \in Fds : table[fd] = 0 /\ \A g \in Fds : table[g] = 0 => fd <= g

\* self.sys.as_raw_fd(): the number, the descriptor stays owned by self.sys
AsRawFd(w) == w.fd

\* s.set_nonblocking(true) on the descriptor fd
SetNonblocking(table, fd) == IF table[fd] = 0 THEN "EBADF" ELSE "ok"

\* io_impl::add_socket(&s): registration is idempotent per descriptor
AddSocket(reg, fd) == reg \cup {fd}

\* The wrapper is taken off the selector when it is dropped
Deregister(reg, fd) == reg \ {fd}

\* Dropping the wrapper drops self.sys, which closes its descriptor
DropSys(table, fd) == [table EXCEPT ![fd] = 0]

\* Dropping the wrapper counts one deregistration of the socket behind fd
CountDereg(dereg, table, fd) ==
    IF table[fd] = 0 THEN dereg ELSE [dereg EXCEPT ![table[fd]] = @ + 1]

RawInit ==
    /\ r_table = [fd \in Fds |-> 0]
    /\ r_reg = {}
    /\ r_w = [w \in Wrappers |-> NoWrapper]
    /\ r_raw = {}
    /\ r_out = "none"
    /\ r_dereg = [s \in Socks |-> 0]
    /\ r_nsock = 0

\* TcpStream::connect / TcpListener::bind make a socket and wrap it with
\* TcpStream::new / TcpListener::new: set_nonblocking(true), add_socket
NewWrapper(w, k) ==
    /\ r_w[w].kind = "none"
    /\ r_nsock < MaxSocks
    /\ \E fd \in Fds : r_table[fd] = 0
    /\ LET fd == LowestFree(r_table)
           s == r_nsock + 1
       IN /\ r_table' = [r_table EXCEPT ![fd] = s]
          /\ r_reg' = AddSocket(r_reg, fd)
          /\ r_w' = [r_w EXCEPT ![w] = [kind |-> k, fd |-> fd, sock |-> s]]
          /\ r_nsock' = s
    /\ UNCHANGED <<r_raw, r_out, r_dereg>>
    /\ UNCHANGED notRaw

\* into_raw_fd(self): self.sys.as_raw_fd(), then self is dropped
IntoRawFd(w) ==
    /\ r_w[w].kind # "none"
    /\ LET fd == AsRawFd(r_w[w])
       IN /\ r_raw' = r_raw \cup {[fd |-> fd, sock |-> r_w[w].sock, kind |-> r_w[w].kind]}
          /\ r_reg' = Deregister(r_reg, fd)
          /\ r_dereg' = CountDereg(r_dereg, r_table, fd)
          /\ r_table' = DropSys(r_table, fd)
    /\ r_w' = [r_w EXCEPT ![w] = NoWrapper]
    /\ UNCHANGED <<r_out, r_nsock>>
    /\ UNCHANGED notRaw

\* from_raw_fd(fd): TcpStream::new(FromRawFd::from_raw_fd(fd)).unwrap_or_else(panic)
FromRawFd(w, r) ==
    /\ r_w[w].kind = "none"
    /\ r \in r_raw
    /\ r_raw' = r_raw \ {r}
    /\ IF SetNonblocking(r_table, r.fd) = "EBADF"
       THEN /\ r_out' = "panic"
            /\ UNCHANGED <<r_reg, r_w, r_dereg>>
       ELSE /\ r_out' = "ok"
            /\ r_reg' = AddSocket(r_reg, r.fd)
            /\ r_dereg' = [r_dereg EXCEPT ![r_table[r.fd]] = 0]
            /\ r_w' = [r_w EXCEPT ![w] = [kind |-> r.kind, fd |-> r.fd, sock |-> r.sock]]
    /\ UNCHANGED <<r_table, r_nsock>>
    /\ UNCHANGED notRaw

\* The wrapper goes out of scope
DropWrapper(w) ==
    /\ r_w[w].kind # "none"
    /\ r_reg' = Deregister(r_reg, r_w[w].fd)
    /\ r_dereg' = CountDereg(r_dereg, r_table, r_w[w].fd)
    /\ r_table' = DropSys(r_table, r_w[w].fd)
    /\ r_w' = [r_w EXCEPT ![w] = NoWrapper]
    /\ UNCHANGED <<r_raw, r_out, r_nsock>>
    /\ UNCHANGED notRaw

RawNext ==
    \/ \E w \in Wrappers, k \in Kinds : NewWrapper(w, k)
    \/ \E w \in Wrappers : IntoRawFd(w)
    \/ \E w \in Wrappers, r \in RawFds : FromRawFd(w, r)
    \/ \E w \in Wrappers : DropWrapper(w)

\* -------------------------------------------------------- specifications

\* A part that takes no step in a specification rests in one state.
ConnIdle == ConnInit /\ ~timeout
TcpIdle ==
    /\ t_op = "read"
    /\ t_co = TRUE
    /\ t_pc = "off"
    /\ t_nonblock = TRUE
    /\ t_first = "none"
    /\ t_res = "none"
    /\ t_tries = 0

PoisonIdle == PoisonInit
SelIdle == SelInit /\ delay = 0
EchoIdle == EchoInit /\ e_B = <<>>
HandleIdle == HandleInit /\ h_kind = "listener"
NewIdle == NewInit /\ n_addrs = <<>>
UdpIdle == UdpInit /\ ~u_timeout
RawIdle == RawInit

\* The connect alone.
InitConnect == ConnInit /\ TcpIdle /\ PoisonIdle /\ SelIdle /\ EchoIdle /\ HandleIdle /\ NewIdle /\ UdpIdle /\ RawIdle
SpecConnect == InitConnect /\ [][ConnNext]_vars

\* A connect, or one call on a stream or a listener.
InitIo == ((ConnInit /\ TcpIdle) \/ (ConnIdle /\ TcpInit)) /\ PoisonIdle /\ SelIdle /\ EchoIdle /\ HandleIdle /\ NewIdle /\ UdpIdle /\ RawIdle
NextIo == (t_pc = "off" /\ ConnNext) \/ TcpNext
SpecIo == InitIo /\ [][NextIo]_vars

\* The poison flag and its threads.
InitPoison == ConnIdle /\ TcpIdle /\ PoisonInit /\ SelIdle /\ EchoIdle /\ HandleIdle /\ NewIdle /\ UdpIdle /\ RawIdle
SpecPoison == InitPoison /\ [][PoisonNext]_vars

\* The select example.
InitSelect == ConnIdle /\ TcpIdle /\ PoisonIdle /\ SelInit /\ EchoIdle /\ HandleIdle /\ NewIdle /\ UdpIdle /\ RawIdle
SpecSelect == InitSelect /\ [][SelNext]_vars

\* The echo example.
InitEcho == ConnIdle /\ TcpIdle /\ PoisonIdle /\ SelIdle /\ EchoInit /\ HandleIdle /\ NewIdle /\ UdpIdle /\ RawIdle
SpecEcho == InitEcho /\ [][EchoNext]_vars

\* The handles of one socket, called from coroutines and from threads.
InitHandle == ConnIdle /\ TcpIdle /\ PoisonIdle /\ SelIdle /\ EchoIdle /\ HandleInit /\ NewIdle /\ UdpIdle /\ RawIdle
SpecHandle == InitHandle /\ [][HandleNext]_vars

\* TcpStreamConnect::new on every list of resolved addresses.
InitNew == ConnIdle /\ TcpIdle /\ PoisonIdle /\ SelIdle /\ EchoIdle /\ HandleIdle /\ NewInit /\ UdpIdle /\ RawIdle
SpecNew == InitNew /\ [][NewNext]_vars

\* One recv_from of a coroutine on the completion model.
InitUdp == ConnIdle /\ TcpIdle /\ PoisonIdle /\ SelIdle /\ EchoIdle /\ HandleIdle /\ NewIdle /\ UdpInit /\ RawIdle
SpecUdp == InitUdp /\ [][UdpNext]_vars

\* The wrappers of a process, their descriptors and the raw descriptors handed out.
InitRaw == ConnIdle /\ TcpIdle /\ PoisonIdle /\ SelIdle /\ EchoIdle /\ HandleIdle /\ NewIdle /\ UdpIdle /\ RawInit
SpecRaw == InitRaw /\ [][RawNext]_vars

\* The scheduling the runtime guarantees: a worker runs every ready coroutine and
\* every started subscribe to its end, and a task that sets the token finishes its
\* cancel call. Nothing is assumed of the reactor's events, the kernel or the timer.
ConnProgram ==
    \/ CheckConnected
    \/ DoneEntry
    \/ DoneCoIoResult
    \/ DoneTest
    \/ DoneResetWrite
    \/ DoneConnect
    \/ DoneFetchAnd
    \/ DoneYieldWith
    \/ Resume
    \/ \E i \in Subs : SubAddTimer(i)
    \/ \E i \in Subs : SubSwap(i)
    \/ \E i \in Subs : SubCheckReadyStep(i)
    \/ \E i \in Subs : SubSetIo(i)
    \/ \E i \in Subs : SubRecheckCancelStep(i)
    \/ ReactorTake
    \/ CancelUnstick

FairConnect == InitConnect /\ [][ConnNext]_vars /\ WF_vars(ConnProgram)

\* ------------------------------------------------------------ claims C1..C5

\* Some subscribe invocation has stored the coroutine and not yet re-checked.
RecheckPending == \E i \in Subs : sub[i] = "check_ready"

\* C1: no lost wakeup. There is no reachable state in which the write-ready flag
\* is set, the coroutine sits in the park slot, and neither the reactor (between
\* setting the flag and taking the slot) nor a subscribe (between storing the
\* coroutine and re-checking the flag) is about to schedule it.
C1_NoLostWakeup ==
    (slot /\ write_ready) => (reactor_pc = "take" \/ RecheckPending)

\* The event set the flag and found the slot empty; subscribe then stored the
\* coroutine and is about to find the flag in its re-check.
C1_Witness ==
    /\ slot
    /\ write_ready
    /\ reactor_pc = "idle"
    /\ RecheckPending

\* The holders of the coroutine: the park slot, the ready queues, the worker that
\* runs it, and a subscribe that has not stored it yet.
Owners ==
    (IF slot THEN 1 ELSE 0) + readyq + (IF pc # "suspended" THEN 1 ELSE 0)
        + Cardinality({i \in Subs : sub[i] \in {"timer", "swap"}})

\* No subscribe, reactor delivery or cancel call is under way.
Quiescent ==
    /\ \A i \in Subs : sub[i] = "idle"
    /\ reactor_pc = "idle"
    /\ canc_pc # "unstick"

\* The coroutine has one holder: a wake path that schedules it took it from the
\* park slot, so it is never queued twice, nor queued while parked or running.
SingleOwner == Owners = 1 /\ readyq <= 1

\* C2: exactly-once wake. Over the interleavings of the readiness event, the
\* timer, the cancel path and subscribe's own re-check, the coroutine is made
\* ready exactly once: never twice (it has a single holder), and not zero times
\* once a competing wake path has run against the subscribe (the timer that
\* subscribe installed has fired and every path has finished).
C2_ExactlyOnceWake ==
    /\ SingleOwner
    /\ (timer = "fired" /\ Quiescent) => ~slot

\* C3: timeout always wakes. With a timeout set, once the timer has fired and
\* subscribe has returned, the coroutine is not left in the park slot when no
\* readiness event and no cancel has happened.
C3_TimeoutAlwaysWakes ==
    (/\ timeout
     /\ timer = "fired"
     /\ \A i \in Subs : sub[i] = "idle"
     /\ events = 0
     /\ ~cancelled) => ~slot

\* C4: cancellation unsticks a parked connect. Whenever the token is set while the
\* coroutine is suspended in yield_with, the coroutine is eventually resumed and
\* done() returns the cancelled error.
C4_CancelUnsticks ==
    (cancelled /\ pc = "suspended") ~> (pc = "returned" /\ result = "Cancelled")

\* The token was set after subscribe returned, the unstick took the coroutine
\* from the slot, and done() returned the cancelled error.
C4_Witness ==
    /\ pc = "returned"
    /\ result = "Cancelled"
    /\ canc_pc = "done"
    /\ CancelBit \in io_flag
    /\ events = 0
    /\ timer = "none"

\* C5: cancel safepoint at done(). Whenever done() returns while the token is
\* set, it returns the cancelled error.
C5_CancelSafepoint ==
    [][(pc \in {"done_entry", "loop_top", "connect"} /\ pc' = "returned" /\ cancelled)
          => result' = "Cancelled"]_vars

\* C6: WouldBlock is never surfaced. Under a coroutine read, write and accept
\* never return WouldBlock (the first attempt's WouldBlock leads to the event
\* source and a yield), and done() of the connect never returns EINPROGRESS or
\* EALREADY.
C6_WouldBlockAbsorbed ==
    /\ (t_pc = "returned" /\ t_co) => t_res # "WouldBlock"
    /\ (t_first = "WouldBlock" /\ t_pc # "returned") =>
            t_pc \in {"yield", "parked", "done"}
    /\ pc = "returned" => result \notin {"EINPROGRESS", "EALREADY", "WouldBlock"}

\* The first attempt of an accept found WouldBlock, the coroutine yielded, and
\* the call returned the retried result.
C6_Witness ==
    /\ t_op = "accept"
    /\ t_co
    /\ t_first = "WouldBlock"
    /\ t_pc = "returned"
    /\ t_res = "Ok"

\* ------------------------------------------------------------------ claim C7

\* C7: poison is set and observed. A done() of a guard that was borrowed while
\* not panicking, called while the caller panics, leaves the flag poisoned; once
\* the flag is poisoned every borrow() by any thread returns Err and every get()
\* returns true; and no step resets the flag.
C7_PoisonSetAndObserved ==
    [][\A t \in Threads :
        /\ (guard[t].held /\ ~guard'[t].held /\ ~guard[t].panicking /\ panicking[t])
              => failed'
        /\ (failed /\ ~guard[t].held /\ guard'[t].held) => guard'[t].err
        /\ (failed /\ got'[t] # got[t]) => got'[t] = "poisoned"
        /\ failed => failed']_vars

\* A guard borrowed while not panicking was dropped during a panic, and another
\* thread's later borrow() returned Err and its get() returned true.
C7_Witness ==
    /\ failed
    /\ \E t \in Threads :
        /\ guard[t].held /\ guard[t].err /\ ~guard[t].panicking
        /\ got[t] = "poisoned"
        /\ \E u \in Threads : u # t /\ panicking[u] /\ ~guard[u].held

\* ------------------------------------------------------------ claims C8, C9

SelectReturned == main_pc \in {"recv", "end"}

\* C8: select returns the first branch to complete. The id select! returns is
\* the id of the branch that completed first, only that branch's body has run,
\* and with the example's 100 ms between the sends the id is 3.
C8_SelectFirstWins ==
    SelectReturned =>
        /\ sel_id = Head(cq)
        /\ bodies = {sel_id}
        /\ delay = SendDelay => sel_id = 3

\* The example ran to its end and select! returned 3.
C8_Witness ==
    /\ main_pc = "end"
    /\ delay = SendDelay
    /\ sel_id = 3
    /\ br[2] = "cancelled"

C10_EchoRoundTrip == e_pc = "closed" => e_out = e_B

\* ---------------------------------------------------------- claims C11, C13

\* C11: blocking fallback. A caller that is not a coroutine never reaches
\* yield_with and issues the plain blocking call with the socket in blocking
\* mode; a caller that is a coroutine finds the socket in non-blocking mode at
\* every attempt of the system call.
C11_BlockingFallback ==
    /\ h_pc = "blocking" => (~h_co /\ ~h_nb)
    /\ h_pc \in {"yield", "parked"} => h_co
    /\ (h_co /\ h_pc = "try") => h_nb

\* C13: timeouts are per handle. set_read_timeout (set_write_timeout) through a
\* handle changes that handle's read (write) timeout to the value given and no
\* other timeout of any handle; try_clone gives the new handle the original's
\* two timeouts and changes no other; no other step changes a timeout; and
\* read() (write()) passes the handle's own read (write) timeout to the event
\* source it builds.
C13_TimeoutsPerHandle ==
    [][/\ (h_calls' # h_calls /\ h_op' = "set_read_timeout") =>
              /\ h_rt'[h_cur'] = h_arg'
              /\ \A g \in Handles \ {h_cur'} : h_rt'[g] = h_rt[g]
              /\ h_wt' = h_wt
       /\ (h_calls' # h_calls /\ h_op' = "set_write_timeout") =>
              /\ h_wt'[h_cur'] = h_arg'
              /\ \A g \in Handles \ {h_cur'} : h_wt'[g] = h_wt[g]
              /\ h_rt' = h_rt
       /\ (h_calls' # h_calls /\ h_op' = "try_clone") =>
              /\ h_rt'[h_arg'] = h_rt[h_cur']
              /\ h_wt'[h_arg'] = h_wt[h_cur']
              /\ \A g \in Handles \ {h_arg'} : h_rt'[g] = h_rt[g] /\ h_wt'[g] = h_wt[g]
       /\ (h_calls' = h_calls \/ h_op' \in {"read", "write", "accept"}) =>
              (h_rt' = h_rt /\ h_wt' = h_wt)
       /\ (h_pc = "try" /\ h_pc' = "yield" /\ h_op = "read") => h_arg' = h_rt[h_cur]
       /\ (h_pc = "try" /\ h_pc' = "yield" /\ h_op = "write") => h_arg' = h_wt[h_cur]
      ]_vars

\* A clone was given its own read timeout after the clone, the original kept
\* its value, and a read on the clone passed the clone's value.
C13_Witness ==
    /\ h_live = Handles
    /\ h_rt[1] # NoTimeout
    /\ h_rt[2] # NoTimeout
    /\ h_rt[1] # h_rt[2]
    /\ h_wt[1] = NoTimeout
    /\ h_op = "read"
    /\ h_cur = 2
    /\ h_pc = "parked"
    /\ h_arg = h_rt[2]

\* ------------------------------------------------------------------ claim C12

\* C12: the connect path mirrors the address family. The socket that
\* TcpStreamConnect::new made has the address family of the address it is
\* paired with: an IPv4 socket for a V4 address, an IPv6 socket for a V6 one.
C12_MirrorsAddressFamily ==
    n_pc = "made" => n_prev.domain = (IF n_prev.addr = "V4" THEN "ipv4" ELSE "ipv6")

\* ------------------------------------------------------------------ claim C14

\* A step in which cancel.cancel() runs on the token's back-reference.
CancelRuns == cancel_runs' = cancel_runs + 1

\* C14: cancellation is idempotent. Every run of the cancel action leaves the
\* cancel bit set and the park slot empty and schedules the coroutine only if
\* it took it from the slot, so the coroutine is never in the ready queues
\* twice; a run that finds the cancel bit set and the slot empty changes
\* nothing; and once the cancel bit is set the coroutine's next safepoint in
\* done() returns the cancelled error, however many times cancel ran.
C14_CancelIdempotent ==
    [][/\ CancelRuns =>
              /\ CancelBit \in io_flag'
              /\ ~slot'
              /\ readyq' = readyq + (IF slot THEN 1 ELSE 0)
              /\ readyq' <= 1
              /\ (CancelBit \in io_flag /\ ~slot) => UNCHANGED <<io_flag, slot, readyq>>
       /\ (pc = "loop_top" /\ CancelBit \in io_flag /\ pc' # pc) =>
              (pc' = "returned" /\ result' = "Cancelled")
      ]_vars

\* The cancel action ran twice, by the task that set the token and by
\* subscribe's re-check, and done() returned the cancelled error.
C14_Witness ==
    /\ cancel_runs >= 2
    /\ canc_pc = "done"
    /\ readyq = 0
    /\ pc = "returned"
    /\ result = "Cancelled"

\* ------------------------------------------------------------------ claim C15

\* C15: single occupancy of the park slot. The coroutine is held in one place
\* at a time (the slot, a ready queue, the worker that runs it, or a subscribe
\* about to store it), and whenever subscribe stores it with
\* io_data.co.swap(co, Release) the slot was empty, in the first and in every
\* later yield_with round of done().
C15_SingleOccupancy ==
    [][/\ Owners = 1
       /\ \A i \in Subs : (sub[i] = "swap" /\ sub'[i] = "check_ready") => (~slot /\ slot')
      ]_vars

\* A second yield_with round stored the coroutine while the subscribe of the
\* first round, whose coroutine the reactor took, has not returned yet.
C15_Witness ==
    /\ sub[1] \in {"set_io", "recheck"}
    /\ sub[2] = "check_ready"
    /\ slot
    /\ pc = "suspended"
    /\ readyq = 0

\* ------------------------------------------------------------ claims C16, C17

\* The step of subscribe in which recv_from_overlapped returned an error.
SubmitFailed == u_sub = "submit" /\ u_sub' # "submit" /\ u_io' = "none"

\* C16: a failed submission wakes immediately. When recv_from_overlapped
\* returns an error, subscribe takes the coroutine back out of io_data.co and
\* schedules it carrying the error, returns without registering the cancel
\* back-reference and leaves the slot empty; done() then returns that error
\* (unless the token was set); and the coroutine is never scheduled a second
\* time, by the timer or otherwise.
C16_FailedSubmissionWakes ==
    [][/\ SubmitFailed =>
              /\ u_slot /\ ~u_slot'
              /\ u_para' = "err"
              /\ u_readyq' = u_readyq + 1
              /\ u_sub' = "idle"
              /\ ~u_cancel_io'
       /\ (u_pc = "done" /\ u_pc' = "returned" /\ u_para = "err" /\ ~u_cancelled) =>
              u_result' = "Err"
       /\ (u_para = "err" => u_wakes' <= 1)
      ]_vars

\* C17: exactly-once wake on the completion model. After a successful
\* submission the coroutine is scheduled at most once over the interleavings
\* of the I/O completion, the timer and the CancelIoEx completion, and the
\* wake-up is not lost: once the timer has fired and no step of subscribe,
\* the port or the canceller is outstanding, the coroutine has been scheduled.
C17_CompletionExactlyOnce ==
    /\ u_wakes <= 1
    /\ (/\ u_timer = "fired"
        /\ u_sub = "idle"
        /\ u_io \in {"pending", "delivered"}
        /\ u_canc_pc # "unstick") => u_wakes = 1

\* ------------------------------------------------------------------ claim C18

\* C18: the cancel back-reference is only live while parked. Whenever
\* subscribe records the back-reference with cancel.set_io, the coroutine is
\* still parked in that IoData's slot: no readiness event has taken and resumed
\* it between the store into the slot and the set_io, so the token never gets a
\* back-reference to an IoData the coroutine has already left.
C18_BackRefOnlyWhileParked ==
    [][\A i \in Subs : (sub[i] = "set_io" /\ sub'[i] = "recheck") => (cancel_io' /\ slot)]_vars

\* ------------------------------------------------------------------ claim C19

\* C19: done() does not park over a pending event. Whenever the fetch_and(!2)
\* of the done() loop finds the event bit set, it clears it and the loop
\* retries connect instead of calling yield_with: done() never reaches
\* yield_with in a round it entered through the continue without having
\* attempted connect in that round.
C19_RetriesConnect ==
    [][(pc = "fetch" /\ pc' = "yield") => ~continued]_vars

\* C19, amended: at the fetch_and(!2) of the done() loop the event bit is
\* cleared, and the loop goes round again when the bit was set and reaches
\* yield_with only when it was clear at that fetch_and; a readiness that arrived
\* since reset_write() always has its bit set at the fetch_and, so it is not
\* lost, and the next round, finding write-ready set, retries connect; a bit
\* once cleared causes no further round.
C19_NoParkOverPendingEvent ==
    [][/\ (pc = "fetch" /\ pc' # pc) =>
              /\ pc' = (IF EventBit \in io_flag THEN "loop_top" ELSE "yield")
              /\ EventBit \notin io_flag'
       /\ (pc' = "yield" /\ pc # "yield") => (pc = "fetch" /\ EventBit \notin io_flag)
       /\ (pc = "fetch" /\ write_ready) => EventBit \in io_flag
       /\ (pc = "test" /\ write_ready /\ pc' # pc) => pc' = "reset"
      ]_vars

\* A readiness event arrived between reset_write() and the fetch_and of a
\* coroutine that has never parked, and the loop went round instead of yielding.
C19_Witness ==
    /\ timeout
    /\ timer = "none"
    /\ \A i \in Subs : sub[i] = "idle"
    /\ pc = "loop_top"
    /\ write_wait
    /\ write_ready
    /\ EventBit \notin io_flag
    /\ events > 0

\* ------------------------------------------------------------------ claim C20

\* The kernel has the outcome of the connection and a write-readiness event
\* has been delivered that done() has not consumed yet.
OutcomeReported == kstate \in {"connected", "failed"} /\ write_ready

\* C20: the connect retry loop re-arms and terminates. When connect still
\* answers EINPROGRESS or EALREADY in done(), done() sets write-wait and goes
\* on to park again rather than returning; and once the kernel has the outcome
\* and a write-readiness event has been delivered, done() eventually returns,
\* with Ok for a connected socket or the connection's error (or the cancelled
\* or timed-out error when the token was set or the timer fired): it neither
\* spins without yielding nor stays parked.
C20_RetryLoopTerminates ==
    /\ [][(pc = "connect" /\ kstate = "inprogress" /\ pc' # pc) =>
              (pc' = "fetch" /\ write_wait' /\ result' = "none")]_vars
    /\ OutcomeReported ~>
          (/\ pc = "returned"
           /\ \/ result = (IF kstate = "connected" THEN "Ok" ELSE "ECONNREFUSED")
              \/ cancelled
              \/ TimeoutBit \in io_flag)

\* A spurious wakeup: the reactor took the coroutine while the subscribe of
\* the first park was still running, connect answered EALREADY, and done()
\* parked the coroutine again.
C20_Witness ==
    /\ ~timeout
    /\ ~cancelled
    /\ kstate = "inprogress"
    /\ sub[1] \in {"set_io", "recheck"}
    /\ sub[2] \in {"check_ready", "set_io", "recheck"}
    /\ slot
    /\ write_wait
    /\ pc = "suspended"

\* ------------------------------------------------------------------ claim C21

\* C21: no spurious poisoning. Flag.failed goes from false to true only in a
\* done() of a guard that was borrowed while not panicking and is dropped while
\* its caller panics; a done() of a guard borrowed during a panic, or called
\* while no panic is in progress, leaves the flag as it is; borrow(), get() and
\* map_result never change the flag; and map_result maps Ok to Ok and Err to
\* Err, passing the value through f.
C21_NoSpuriousPoisoning ==
    [][/\ (~failed /\ failed') =>
              \E t \in Threads :
                  /\ guard[t].held /\ ~guard'[t].held
                  /\ ~guard[t].panicking /\ panicking[t]
       /\ \A t \in Threads :
              /\ (guard[t].held /\ ~guard'[t].held /\ (guard[t].panicking \/ ~panicking[t]))
                    => failed' = failed
              /\ (~guard[t].held /\ guard'[t].held) => failed' = failed
              /\ got'[t] # got[t] => failed' = failed
              /\ mapped'[t] # mapped[t] =>
                    /\ failed' = failed
                    /\ mapped'[t].kind = (IF guard[t].err THEN "Err" ELSE "Ok")
                    /\ mapped'[t].panicking = guard[t].panicking
                    /\ mapped'[t].wrapped
      ]_vars

\* A guard borrowed during a panic went through map_result as Ok and was
\* dropped while the thread still panicked, and the flag is not poisoned.
C21_Witness ==
    /\ ~failed
    /\ \E t \in Threads :
        /\ panicking[t]
        /\ ~guard[t].held
        /\ mapped[t].kind = "Ok"
        /\ mapped[t].panicking
        /\ mapped[t].wrapped

\* ------------------------------------------------------------------ claim C22

\* C22: the raw descriptor into_raw_fd hands out stays usable. While the caller
\* holds it the socket was taken off the selector exactly once and the
\* descriptor is still open and refers to the caller's socket; from_raw_fd on
\* it does not fail, and the wrapper it yields refers to that socket and is
\* registered with the selector.
C22_RawFdStaysUsable ==
    /\ \A r \in r_raw :
        /\ r_dereg[r.sock] = 1
        /\ r_table[r.fd] = r.sock
    /\ r_out # "panic"
    /\ \A w \in Wrappers :
        r_w[w].kind # "none" => (r_table[r_w[w].fd] = r_w[w].sock /\ r_w[w].fd \in r_reg)

====
